---------------------------- MODULE Spec2Model ----------------------------
(***************************************************************************)
(* Model of the payment saga of the Autonomous Treasurer backend:          *)
(*   backend/finance/saga_orchestrator.py  SagaOrchestrator                *)
(*   backend/app.py                        process_invoice,                *)
(*                                         set_approval_limit              *)
(*                                                                         *)
(* Every process_invoice call is one task of the single asyncio event      *)
(* loop.  A task keeps the loop until it reaches an await that really      *)
(* suspends; the only such await on the path of a payment is the           *)
(* asyncio.sleep of _step_reserve_funds_db.  All Redis, SMTP, Postgres and *)
(* web3 calls are blocking calls made while the task holds the loop.       *)
(* The chain, Redis and Postgres are the environment: each call to them    *)
(* either returns or raises, chosen nondeterministically.                  *)
(*                                                                         *)
(* The retry helper, which no step of the saga calls, and the other parts  *)
(* of the backend have specifications of their own:                        *)
(*   SpecRetry     backend/exception/retry_logic.py  retry_async           *)
(*   SpecDelay     backend/exception/retry_logic.py  RetryConfig.get_delay *)
(*   SpecRate      backend/security/rate_limit.py    RateLimiter,          *)
(*                                                   rate_limit_middleware *)
(*   SpecSanitize  backend/security/sanitize.py      InputSanitizer        *)
(*   SpecSeed      backend/init_db.py                init_db               *)
(*                 backend/app.py                    startup_event         *)
(***************************************************************************)
EXTENDS Integers, Sequences, FiniteSets

\* Number of process_invoice calls (sagas) of one behaviour.
NumSagas == 2

\* "limit = float(limit_str) if limit_str else 50.0"
DefaultLimit == 50

Sagas == 1..NumSagas

\* Optional values: None, or Some(v).
None == << >>
Some(v) == << v >>
Val(o) == o[1]

\* What the invoice parser delivers (InvoiceSchema).  amount is
\* Optional[float]: absent, negative, below, at and above the default limit.
\* vendor_name is absent (""), a well-formed address, or a string that starts
\* with 0x and is no address; an absent name becomes the plain name "Unknown",
\* which stands for every vendor given by name.
ParsedInvoices ==
  { [amount |-> None,     vendor_name |-> ""],
    [amount |-> Some(-5), vendor_name |-> "0xVALID"],
    [amount |-> Some(45), vendor_name |-> ""],
    [amount |-> Some(45), vendor_name |-> "0xVALID"],
    [amount |-> Some(45), vendor_name |-> "0xbad"],
    [amount |-> Some(50), vendor_name |-> "0xVALID"],
    [amount |-> Some(75), vendor_name |-> ""],
    [amount |-> Some(75), vendor_name |-> "0xVALID"] }

\* The placeholder address of the "DEMO HACK".
DemoAddress == "0x104F"

\* Values an administrator writes with POST /api/settings/limit.
LimitValues == {40, 100}

\* The environment at the start of a behaviour: whether MNEE_TOKEN_ADDRESS
\* is set, and the token and native balances of the paying account.
ChainConfigs ==
  { [tokenAddress |-> TRUE,  token |-> 10,  native |-> 100],
    [tokenAddress |-> TRUE,  token |-> 45,  native |-> 100],
    [tokenAddress |-> TRUE,  token |-> 100, native |-> 100],
    [tokenAddress |-> FALSE, token |-> 10,  native |-> 100] }

\* RetryConfig() with the defaults of RetryConfig.__init__.  Durations are in
\* milliseconds; exponential_base is the fraction num/den.
DefaultRetryConfig ==
  [max_attempts |-> 3, initial_delay |-> 1000, max_delay |-> 60000,
   exponential_base |-> [num |-> 2, den |-> 1], jitter |-> TRUE]

\* The largest max_attempts a caller of retry_async passes.
MaxTries == 3

\* The RetryConfig objects a caller passes: nothing in RetryConfig.__init__
\* validates the fields, so max_attempts may be 0, initial_delay may exceed
\* max_delay and exponential_base may be below 1.
RetryConfigs ==
  [max_attempts : 0..MaxTries,
   initial_delay : {1000, 8000},
   max_delay : {2000, 60000},
   exponential_base : {[num |-> 1, den |-> 2], [num |-> 1, den |-> 1],
                       [num |-> 2, den |-> 1]},
   jitter : BOOLEAN]

\* The exceptions the wrapped operation raises, by class.
ExceptionKinds == {"TimeoutError", "ConnectionError", "ValueError"}

\* The retriable_exceptions a caller passes: the transient classes of the
\* docstring's example, or the default (Exception,), which matches every class.
RetriableSets == {{"TimeoutError", "ConnectionError"}, ExceptionKinds}

\* 0.5 + random.random() lies in [0.5, 1.5); in tenths.
JitterFactors == {5, 10, 14}

VARIABLES
  running,       \* Some(s): task s holds the event loop; None: it is free
  pc,            \* pc[s]: where process_invoice call s stands
  amount,        \* amount[s]: the saga's amount argument
  vendor,        \* vendor[s]: the saga's vendor_wallet argument
  limit,         \* limit[s]: the limit read by _step_validate_request
  validation,    \* validation[s]: validation_status
  bal,           \* bal[s]: treasury_balance as read by the chain step
  nonce,         \* nonce[s]: the nonce obtained by the chain step
  calls,         \* calls[s]: the steps and collaborator calls made so far
  emails,        \* emails[s]: number of EmailService.send_alert calls
  result,        \* result[s]: the dict execute_payment_saga returned
  response,      \* response[s]: what process_invoice answered
  store,         \* Redis key system:approval_limit
  redisClient,   \* SagaOrchestrator.redis_client is not None
  keyPresent,    \* WALLET_PRIVATE_KEY is set
  tokenAddress,  \* MNEE_TOKEN_ADDRESS is set
  tokenBalance,  \* on-chain token balance of the paying account
  ethBalance,    \* on-chain native balance of the paying account
  chainNonce,    \* transaction count of the paying account (latest block)
  mempool,       \* broadcast transactions not yet included in a block
  broadcasts,    \* every send_raw_transaction call that was made
  alerts,        \* Redis list treasury:alerts
  dailyLogs,     \* Redis list treasury:daily_logs
  approvals,     \* Redis list treasury:approvals
  transactions,  \* Postgres table transactions
  reservations,  \* reservation records in the Postgres ledger
  config,        \* retry_async: config
  retriable_exceptions,  \* retry_async: retriable_exceptions
  attempt,       \* retry_async: the loop variable
  last_exception,  \* retry_async: last_exception
  rpc,           \* retry_async: where the call stands
  invoked,       \* what each invocation of func did, in order
  slept,         \* the delays passed to asyncio.sleep, in order
  retryResult,   \* what retry_async returned or raised
  requests_per_minute,  \* RateLimiter.requests_per_minute
  requests,      \* RateLimiter.requests: client id -> recorded times
  clock,         \* time.time(), in seconds
  handled,       \* handled[c]: times at which call_next ran for a limited request of c
  lastResponse,  \* what rate_limit_middleware did with the last request
  rateHeaders,   \* the X-RateLimit headers set on the last response
  user_input,    \* sanitize_string: user_input
  max_length,    \* sanitize_string: max_length
  allow_html,    \* sanitize_string: allow_html
  sanitized,     \* what sanitize_string returned or raised
  delayConfig,   \* get_delay: self
  delays,        \* delays[n]: what get_delay(n) returned or raised
  wallets,       \* Postgres table wallets
  users,         \* Postgres table users
  dbpc,          \* init_db: where the running call stands
  retries,       \* init_db: retries
  attempts,      \* init_db: what each attempt of the running call did
  initResult,    \* init_db: how the last call ended
  initRuns,      \* number of init_db calls made
  seedings,      \* number of init_db calls that returned
  startups       \* number of startup_event calls made

sagaVars == << pc, amount, vendor, limit, validation, bal, nonce, calls,
               emails, result, response >>
configVars == << redisClient, keyPresent, tokenAddress >>
chainVars == << tokenBalance, ethBalance, chainNonce, mempool, broadcasts >>
redisVars == << store, alerts, dailyLogs, approvals >>
dbVars == << transactions, reservations >>
retryVars == << config, retriable_exceptions, attempt, last_exception, rpc,
                invoked, slept, retryResult >>
rateVars == << requests_per_minute, requests, clock, handled, lastResponse,
              rateHeaders >>
sanitizeVars == << user_input, max_length, allow_html, sanitized >>
securityVars == << rateVars, sanitizeVars >>
paymentVars == << running, sagaVars, configVars, chainVars, redisVars, dbVars >>
delayVars == << delayConfig, delays >>
seedVars == << wallets, users, dbpc, retries, attempts, initResult, initRuns,
               seedings, startups >>
utilityVars == << delayVars, seedVars >>
vars == << paymentVars, retryVars, securityVars, utilityVars >>

NoResult == [status |-> "NONE", reason |-> "NONE", msg |-> "NONE", tx_hash |-> None]
NoResponse ==
  [status |-> "NONE", tx_hash |-> None, reason |-> "NONE", msg |-> "NONE",
   approval_id |-> None]

NoRetryResult == [kind |-> "NONE", value |-> None]

\* No call of retry_async has been made.
RetryNotStarted ==
  /\ config = DefaultRetryConfig
  /\ retriable_exceptions = ExceptionKinds
  /\ attempt = 0
  /\ last_exception = None
  /\ rpc = "idle"
  /\ invoked = << >>
  /\ slept = << >>
  /\ retryResult = NoRetryResult

SagaInit ==
  /\ running = None
  /\ pc = [s \in Sagas |-> "new"]
  /\ amount = [s \in Sagas |-> 0]
  /\ vendor = [s \in Sagas |-> "Unknown"]
  /\ limit = [s \in Sagas |-> None]
  /\ validation = [s \in Sagas |-> "NONE"]
  /\ bal = [s \in Sagas |-> None]
  /\ nonce = [s \in Sagas |-> None]
  /\ calls = [s \in Sagas |-> {}]
  /\ emails = [s \in Sagas |-> 0]
  /\ result = [s \in Sagas |-> NoResult]
  /\ response = [s \in Sagas |-> NoResponse]
  /\ store = None
  /\ redisClient \in BOOLEAN
  /\ keyPresent \in BOOLEAN
  /\ \E c \in ChainConfigs :
       /\ tokenAddress = c.tokenAddress
       /\ tokenBalance = c.token
       /\ ethBalance = c.native
  /\ chainNonce = 0
  /\ mempool = {}
  /\ broadcasts = {}
  /\ alerts = << >>
  /\ dailyLogs = << >>
  /\ approvals = << >>
  /\ transactions = << >>
  /\ reservations = {}

\* The identifiers rate_limit_middleware derives for its clients.
ClientIds == {"a", "b"}

NoResponseYet ==
  [client |-> "NONE", limited |-> FALSE, status |-> 0, retry_after |-> None,
   forwarded |-> FALSE, at |-> 0]

NoHeadersYet == [client |-> "NONE", remaining |-> 0, limit |-> 0]

\* The rate limiter with the limit n has seen no request.
RateLimiterNew(n) ==
  /\ requests_per_minute = n
  /\ requests = [c \in ClientIds |-> << >>]
  /\ clock = 0
  /\ handled = [c \in ClientIds |-> << >>]
  /\ lastResponse = NoResponseYet
  /\ rateHeaders = NoHeadersYet

NoSanitizeResult == [kind |-> "NONE", value |-> << >>]

\* No call of sanitize_string has been made.
SanitizeNotStarted ==
  /\ user_input = None
  /\ max_length = 0
  /\ allow_html = FALSE
  /\ sanitized = NoSanitizeResult

\* No request is in process and nothing has been paid.
PaymentAtRest ==
  /\ SagaInit
  /\ redisClient /\ keyPresent /\ tokenAddress /\ tokenBalance = 100

\* No call of get_delay has been made outside retry_async.
DelayNotStarted ==
  /\ delayConfig = DefaultRetryConfig
  /\ delays = << >>

\* init_db has a fresh copy of its local variable and has not been called.
InitDbNotCalled ==
  /\ dbpc = "idle"
  /\ retries = 0
  /\ attempts = << >>
  /\ initResult = "NONE"
  /\ initRuns = 0
  /\ seedings = 0
  /\ startups = 0

\* The database has no rows and no start-up code has run.
DatabaseNotSeeded ==
  /\ wallets = << >>
  /\ users = << >>
  /\ InitDbNotCalled

UtilitiesAtRest == DelayNotStarted /\ DatabaseNotSeeded

Init ==
  /\ SagaInit
  /\ RetryNotStarted /\ RateLimiterNew(1) /\ SanitizeNotStarted
  /\ UtilitiesAtRest

----------------------------------------------------------------------------
(* The event loop *)

\* SuspendsAt as it would be with an awaited (asynchronous) broadcast: the
\* task also gives the loop back between the nonce and the broadcast.
SuspendsAtAwaitedSend(p) == p \in {"sleeping", "send"}

\* The program points at which a task gives the loop back: the await of
\* asyncio.sleep in _step_reserve_funds_db.  No other await of the payment
\* path suspends (the awaited coroutines run synchronously to their return).
SuspendsAt(p) == p = "sleeping"

Finished(p) == p \in {"done", "raised"}

\* Task s may take its next step: it holds the loop, or the loop is free and
\* s is a new request or is suspended.
CanStep(s) ==
  \/ running = Some(s)
  \/ running = None /\ (pc[s] = "new" \/ SuspendsAt(pc[s]))

\* Who holds the loop after s moved to program point p.
LoopAfter(s, p) == IF Finished(p) \/ SuspendsAt(p) THEN None ELSE Some(s)

----------------------------------------------------------------------------
(* Pure parts of process_invoice and of the saga steps *)

\* app.py: amount = float(parsed_data.amount or 0.0)
ParseAmount(a) == IF a = None \/ a = Some(0) THEN 0 ELSE Val(a)

\* app.py: vendor = parsed_data.vendor_name or "Unknown"
ParseVendor(v) == IF v = "" THEN "Unknown" ELSE v

\* "if not invoice_data.get('amount')": a missing or zero amount is falsy.
AmountFalsy(amt) == amt = 0

\* ReadLimit as it would be with no default: an absent limit counts as 0.
ReadLimitZeroDefault(client, stored) ==
  IF client /\ stored # None THEN Val(stored) ELSE 0

\* The limit _step_validate_request compares with, when the Redis read
\* returns: the stored value, 50.0 when nothing is stored or when the
\* orchestrator was constructed without Redis.
ReadLimit(client, stored) ==
  IF client
    THEN (IF stored = None THEN DefaultLimit ELSE Val(stored))
    ELSE DefaultLimit

\* LimitDecision with the stored limit ignored: the amount is compared with
\* the default limit.
LimitDecisionIgnoresStore(amt, lim) ==
  IF amt > DefaultLimit THEN "REQUIRES_APPROVAL" ELSE "APPROVED"

\* "if float(invoice_data['amount']) > limit: return REQUIRES_APPROVAL"
LimitDecision(amt, lim) ==
  IF amt > lim THEN "REQUIRES_APPROVAL" ELSE "APPROVED"

\* _step_reserve_funds_db: sleeps and returns True; it writes nothing.
StepReserveFundsDb == TRUE

\* The reservation ledger after _step_reserve_funds_db ran for request s: the
\* body is "await asyncio.sleep(0.1); return True", so the ledger it leaves is
\* the ledger it found.
LedgerAfterReserve(ledger, s) == ledger

\* vendor_wallet.startswith("0x")
StartsWith0x(v) == v \in {"0xVALID", "0xbad", DemoAddress}

\* What web3 accepts as the _to argument of transfer.
WellFormedAddress(v) == v \in {"0xVALID", DemoAddress}

\* The DEMO HACK: a vendor that does not start with 0x is replaced by the
\* placeholder address.
ResolveVendor(v) == IF ~StartsWith0x(v) THEN DemoAddress ELSE v

\* InsufficientLiquidity with <= for <: a balance equal to the amount is
\* refused.
InsufficientLiquidityStrict(balance, amt) == balance <= amt

\* "if Decimal(treasury_balance) < Decimal(amount)"
InsufficientLiquidity(balance, amt) == balance < amt

\* The balance the liquidity check reads: the token balance, or the native
\* balance when MNEE_TOKEN_ADDRESS is not set.
TreasuryBalance == IF tokenAddress THEN tokenBalance ELSE ethBalance

\* What _step_execute_chain_transaction returns: a transaction hash, the
\* string FAILED_NO_LIQUIDITY, or "FAILED_CHAIN_ERROR: <message>".
ChainHash(s, n) == [kind |-> "HASH", msg |-> "NONE", tx |-> Some(<< s, n >>)]
ChainNoLiquidity == [kind |-> "FAILED_NO_LIQUIDITY", msg |-> "NONE", tx |-> None]
ChainError(m) == [kind |-> "FAILED_CHAIN_ERROR", msg |-> m, tx |-> None]

\* '"FAILED" in tx_hash': true of the two failure strings, false of a hex hash.
ContainsFAILED(ret) == ret.kind \in {"FAILED_NO_LIQUIDITY", "FAILED_CHAIN_ERROR"}

\* execute_payment_saga, lines 50-52: the outcome of a request not approved.
PausedOutcome(status) ==
  [status |-> "PAUSED", reason |-> status, msg |-> "NONE", tx_hash |-> None]

\* execute_payment_saga, lines 56-57.
ReservationFailedOutcome ==
  [status |-> "FAILED", reason |-> "DB_RESERVATION_FAILED", msg |-> "NONE",
   tx_hash |-> None]

\* execute_payment_saga, lines 61-67: the outcome made of the chain step's
\* return value.
ChainOutcome(ret) ==
  IF ContainsFAILED(ret)
    THEN [status |-> "FAILED", reason |-> ret.kind, msg |-> ret.msg,
          tx_hash |-> None]
    ELSE [status |-> "SUCCESS", reason |-> "NONE", msg |-> "NONE",
          tx_hash |-> ret.tx]

\* An exception that leaves process_invoice: the request is answered 500.  A
\* parser failure is answered with its text (detail=str(e)); the text of any
\* other exception stays on the server.
RaisedResponse(m) ==
  [status |-> "HTTP_500", tx_hash |-> None, reason |-> "NONE", msg |-> m,
   approval_id |-> None]

----------------------------------------------------------------------------
(* process_invoice up to the saga's suspension *)

\* process_invoice, part A: the invoice is parsed; a parser failure is
\* answered with HTTPException(500, detail=str(e)).
Submit(s) ==
  /\ pc[s] = "new"
  /\ CanStep(s)
  /\ \A t \in Sagas : t < s => pc[t] # "new"
  /\ \E inv \in ParsedInvoices, parsed \in BOOLEAN :
       IF parsed
         THEN /\ amount' = [amount EXCEPT ![s] = ParseAmount(inv.amount)]
              /\ vendor' = [vendor EXCEPT ![s] = ParseVendor(inv.vendor_name)]
              /\ pc' = [pc EXCEPT ![s] = "validate"]
              /\ running' = LoopAfter(s, "validate")
              /\ UNCHANGED response
         ELSE /\ pc' = [pc EXCEPT ![s] = "raised"]
              /\ running' = LoopAfter(s, "raised")
              /\ response' = [response EXCEPT ![s] = RaisedResponse("PARSE_ERROR")]
              /\ UNCHANGED << amount, vendor >>
  /\ UNCHANGED << limit, validation, bal, nonce, calls, emails, result >>
  /\ UNCHANGED << configVars, chainVars, redisVars, dbVars >>
  /\ UNCHANGED << retryVars, securityVars, utilityVars >>

\* execute_payment_saga, step 1: _step_validate_request and the return of
\* PAUSED when the request is not approved.  The Redis read may raise; the
\* exception leaves execute_payment_saga and process_invoice.
Validate(s) ==
  /\ pc[s] = "validate"
  /\ CanStep(s)
  /\ \E readOk \in BOOLEAN :
       LET reads == ~AmountFalsy(amount[s])
           lim == ReadLimit(redisClient, store)
           status == IF AmountFalsy(amount[s]) THEN "REQUIRES_APPROVAL"
                     ELSE LimitDecision(amount[s], lim)
           raises == reads /\ redisClient /\ ~readOk
           next == IF raises THEN "raised"
                   ELSE IF status # "APPROVED" THEN "finish" ELSE "reserve"
       IN /\ (~(reads /\ redisClient)) => readOk
          /\ pc' = [pc EXCEPT ![s] = next]
          /\ running' = LoopAfter(s, next)
          /\ limit' = [limit EXCEPT ![s] = IF reads /\ ~raises THEN Some(lim) ELSE None]
          /\ validation' = [validation EXCEPT ![s] = IF raises THEN "NONE" ELSE status]
          /\ result' = [result EXCEPT ![s] =
                          IF next = "finish" THEN PausedOutcome(status) ELSE @]
          /\ response' = [response EXCEPT ![s] =
                          IF raises THEN RaisedResponse("NONE") ELSE @]
  /\ UNCHANGED << amount, vendor, bal, nonce, calls, emails >>
  /\ UNCHANGED << configVars, chainVars, redisVars, dbVars >>
  /\ UNCHANGED << retryVars, securityVars, utilityVars >>

\* execute_payment_saga, step 2: _step_reserve_funds_db is entered and the
\* task suspends in asyncio.sleep(0.1).  No record is written.
Reserve(s) ==
  /\ pc[s] = "reserve"
  /\ CanStep(s)
  /\ calls' = [calls EXCEPT ![s] = @ \cup {"reserve"}]
  /\ pc' = [pc EXCEPT ![s] = "sleeping"]
  /\ running' = LoopAfter(s, "sleeping")
  /\ reservations' = LedgerAfterReserve(reservations, s)
  /\ UNCHANGED << amount, vendor, limit, validation, bal, nonce, emails,
                  result, response >>
  /\ UNCHANGED << configVars, chainVars, redisVars, transactions >>
  /\ UNCHANGED << retryVars, securityVars, utilityVars >>

\* The sleep is over: _step_reserve_funds_db returns and execute_payment_saga
\* tests "if not reserved".
ReserveReturn(s) ==
  /\ pc[s] = "sleeping"
  /\ CanStep(s)
  /\ LET next == IF StepReserveFundsDb THEN "chain" ELSE "finish"
     IN /\ pc' = [pc EXCEPT ![s] = next]
        /\ running' = LoopAfter(s, next)
        /\ result' = [result EXCEPT ![s] =
                        IF StepReserveFundsDb THEN @ ELSE ReservationFailedOutcome]
  /\ UNCHANGED << amount, vendor, limit, validation, bal, nonce, calls,
                  emails, response >>
  /\ UNCHANGED << configVars, chainVars, redisVars, dbVars >>
  /\ UNCHANGED << retryVars, securityVars, utilityVars >>

----------------------------------------------------------------------------
(* execute_payment_saga, step 3: _step_execute_chain_transaction.  The step *)
(* has no await: the task holds the loop from its entry to its return.      *)

\* ChainReturns as it would be if execute_payment_saga ran the chain step
\* again after a failure instead of returning FAILED.
ChainReturnsOrRunsAgain(s, ret) ==
  IF ContainsFAILED(ret)
    THEN /\ result' = result
         /\ pc' = [pc EXCEPT ![s] = "chain"]
         /\ running' = LoopAfter(s, "chain")
    ELSE /\ result' = [result EXCEPT ![s] = ChainOutcome(ret)]
         /\ pc' = [pc EXCEPT ![s] = "finish"]
         /\ running' = LoopAfter(s, "finish")

\* The chain step returned ret: execute_payment_saga returns its outcome to
\* process_invoice.
ChainReturns(s, ret) ==
  /\ result' = [result EXCEPT ![s] = ChainOutcome(ret)]
  /\ pc' = [pc EXCEPT ![s] = "finish"]
  /\ running' = LoopAfter(s, "finish")

\* Lines 113-138: the signing key is loaded and the balance is read.  A
\* missing key and a failed RPC call raise inside the try block, and the
\* except clause turns the exception into "FAILED_CHAIN_ERROR: ...".
ChainReadBalance(s) ==
  /\ pc[s] = "chain"
  /\ CanStep(s)
  /\ \E rpcOk \in BOOLEAN :
       IF ~keyPresent
         THEN /\ rpcOk
              /\ ChainReturns(s, ChainError("KEY_MISSING"))
              /\ UNCHANGED << bal, calls >>
         ELSE /\ calls' = [calls EXCEPT ![s] = @ \cup {"balance"}]
              /\ IF rpcOk
                   THEN /\ bal' = [bal EXCEPT ![s] = Some(TreasuryBalance)]
                        /\ pc' = [pc EXCEPT ![s] = "liquidity"]
                        /\ running' = LoopAfter(s, "liquidity")
                        /\ UNCHANGED result
                   ELSE /\ ChainReturns(s, ChainError("RPC_ERROR"))
                        /\ UNCHANGED bal
  /\ UNCHANGED << amount, vendor, limit, validation, nonce, emails, response >>
  /\ UNCHANGED << configVars, chainVars, redisVars, dbVars >>
  /\ UNCHANGED << retryVars, securityVars, utilityVars >>

\* Lines 140-151: the liquidity decision.  With too little balance the alert
\* is pushed to treasury:alerts (when the orchestrator has a Redis client),
\* the e-mail alert is sent and FAILED_NO_LIQUIDITY is returned.  The push is
\* inside the try block: when it raises, the except clause returns
\* "FAILED_CHAIN_ERROR: ..." and the e-mail is not sent.  send_alert itself
\* catches every exception and returns a boolean nobody reads.
ChainLiquidity(s) ==
  /\ pc[s] = "liquidity"
  /\ CanStep(s)
  /\ IF InsufficientLiquidity(Val(bal[s]), amount[s])
       THEN \E pushOk \in BOOLEAN :
              /\ ~redisClient => pushOk
              /\ IF pushOk
                   THEN /\ alerts' = IF redisClient
                                       THEN << [saga |-> s, kind |-> "INSUFFICIENT_LIQUIDITY"] >> \o alerts
                                       ELSE alerts
                        /\ emails' = [emails EXCEPT ![s] = @ + 1]
                        /\ calls' = [calls EXCEPT ![s] =
                                       @ \cup (IF redisClient THEN {"alert", "email"} ELSE {"email"})]
                        /\ ChainReturns(s, ChainNoLiquidity)
                   ELSE /\ calls' = [calls EXCEPT ![s] = @ \cup {"alert"}]
                        /\ ChainReturns(s, ChainError("REDIS_ERROR"))
                        /\ UNCHANGED << alerts, emails >>
       ELSE /\ pc' = [pc EXCEPT ![s] = "nonce"]
            /\ running' = LoopAfter(s, "nonce")
            /\ UNCHANGED << result, alerts, emails, calls >>
  /\ UNCHANGED << amount, vendor, limit, validation, bal, nonce, response >>
  /\ UNCHANGED << configVars, chainVars, store, dailyLogs, approvals, dbVars >>
  /\ UNCHANGED << retryVars, securityVars, utilityVars >>

\* Line 155: nonce = w3.eth.get_transaction_count(my_address), the count of
\* the transactions of the account that are included in the latest block.
ChainNonce(s) ==
  /\ pc[s] = "nonce"
  /\ CanStep(s)
  /\ calls' = [calls EXCEPT ![s] = @ \cup {"nonce"}]
  /\ \E rpcOk \in BOOLEAN :
       IF rpcOk
         THEN /\ nonce' = [nonce EXCEPT ![s] = Some(chainNonce)]
              /\ pc' = [pc EXCEPT ![s] = "send"]
              /\ running' = LoopAfter(s, "send")
              /\ UNCHANGED result
         ELSE /\ ChainReturns(s, ChainError("RPC_ERROR"))
              /\ UNCHANGED nonce
  /\ UNCHANGED << amount, vendor, limit, validation, bal, emails, response >>
  /\ UNCHANGED << configVars, chainVars, redisVars, dbVars >>
  /\ UNCHANGED << retryVars, securityVars, utilityVars >>

\* The transaction the chain step builds and signs.
Transfer(s) ==
  [saga |-> s, nonce |-> Val(nonce[s]), amount |-> amount[s],
   to |-> ResolveVendor(vendor[s])]

\* Lines 157-176: the transfer is built (to_wei of a negative amount and a
\* malformed address raise; so may the gas price RPC), signed and sent with
\* send_raw_transaction.  The node takes a transaction whose nonce is not
\* below the account's count; one with the nonce of a pending transaction
\* replaces it or is refused, as the node and the gas prices decide.
ChainSend(s) ==
  /\ pc[s] = "send"
  /\ CanStep(s)
  /\ LET tx == Transfer(s)
         buildFails == ~WellFormedAddress(tx.to) \/ tx.amount < 0
     IN \E o \in {"build_error", "gas_rpc_error", "send_error", "accepted"} :
          /\ buildFails <=> (o = "build_error")
          /\ o = "accepted" => tx.nonce >= chainNonce
          /\ calls' = [calls EXCEPT ![s] =
                         IF o \in {"send_error", "accepted"} THEN @ \cup {"sign", "send"} ELSE @]
          /\ broadcasts' =
               IF o \in {"send_error", "accepted"}
                 THEN broadcasts \cup {[saga |-> s, nonce |-> tx.nonce, to |-> tx.to,
                                        accepted |-> (o = "accepted")]}
                 ELSE broadcasts
          /\ mempool' =
               IF o = "accepted"
                 THEN {t \in mempool : t.nonce # tx.nonce} \cup {tx}
                 ELSE mempool
          /\ ChainReturns(s, CASE o = "build_error" -> ChainError("BUILD_ERROR")
                               [] o = "accepted" -> ChainHash(s, tx.nonce)
                               [] OTHER -> ChainError("RPC_ERROR"))
  /\ UNCHANGED << amount, vendor, limit, validation, bal, nonce, emails, response >>
  /\ UNCHANGED << configVars, tokenBalance, ethBalance, chainNonce, redisVars, dbVars >>
  /\ UNCHANGED << retryVars, securityVars, utilityVars >>

\* The network includes the pending transaction that is next in sequence.
\* A transfer of more than the balance reverts; its nonce is consumed.
Mine ==
  /\ \E t \in mempool :
       /\ t.nonce = chainNonce
       /\ mempool' = mempool \ {t}
       /\ chainNonce' = chainNonce + 1
       /\ tokenBalance' = IF tokenBalance >= t.amount
                            THEN tokenBalance - t.amount ELSE tokenBalance
  /\ UNCHANGED << running, sagaVars, configVars, ethBalance, broadcasts,
                  redisVars, dbVars >>
  /\ UNCHANGED << retryVars, securityVars, utilityVars >>

----------------------------------------------------------------------------
(* process_invoice after the saga returned (parts C, D and steps 1-3) *)

\* Part D as it would be without the branch for PAUSED: everything that is
\* not SUCCESS is FAILED.
TxStatusWithoutPaused(res) ==
  IF res.status = "SUCCESS" THEN "CONFIRMED" ELSE "FAILED"

\* Part D: the status, hash and reason process_invoice derives of the
\* saga's outcome.
TxStatus(res) ==
  IF res.status = "SUCCESS" THEN "CONFIRMED"
  ELSE IF res.status \in {"PAUSED", "REQUIRES_APPROVAL"} THEN "REQUIRES_APPROVAL"
  ELSE "FAILED"

TxHash(res) == IF res.status = "SUCCESS" THEN res.tx_hash ELSE None

TxReason(res) ==
  IF res.status = "SUCCESS" THEN "NONE"
  ELSE IF res.status \in {"PAUSED", "REQUIRES_APPROVAL"} THEN "Exceeds Policy Limit"
  ELSE res.reason

\* The text of the exception inside a FAILED reason ("FAILED_CHAIN_ERROR: ...").
TxReasonMsg(res) == IF TxStatus(res) = "FAILED" THEN res.msg ELSE "NONE"

\* The row of table transactions, the entry of treasury:daily_logs and the
\* ticket of treasury:approvals.  The time stamps and the balance snapshot of
\* fetch_treasury_balance (a read that changes nothing and never raises) are
\* left out.
DbEntry(s) ==
  [saga |-> s, vendor |-> vendor[s], amount |-> amount[s],
   status |-> TxStatus(result[s]), tx_hash |-> TxHash(result[s]),
   reason |-> TxReason(result[s])]

LogEntry(s) ==
  [saga |-> s,
   event |-> IF result[s].status = "SUCCESS" THEN "Payment to" ELSE "Invoice for",
   status |-> TxStatus(result[s]),
   tx_hash |-> TxHash(result[s]),
   required |-> IF TxStatus(result[s]) = "REQUIRES_APPROVAL"
                  THEN Some(amount[s]) ELSE None,
   reason |-> TxReason(result[s])]

ApprovalData(s) ==
  [id |-> s, vendor |-> vendor[s], amount |-> amount[s],
   reason |-> TxReason(result[s]), status |-> "PENDING"]

\* The answers of process_invoice.
PausedResponse(s) ==
  [status |-> "PAUSED_FOR_APPROVAL", tx_hash |-> None, reason |-> "NONE",
   msg |-> "NONE", approval_id |-> Some(s)]

SagaResponse(res) ==
  [status |-> res.status, tx_hash |-> TxHash(res), reason |-> TxReason(res),
   msg |-> TxReasonMsg(res), approval_id |-> None]

\* AfterWrites as it would be without the try/except around the Postgres
\* write: a failed write leaves process_invoice as an exception, too.
AfterWritesDbFatal(dbOk, logOk, ticketOk) ==
  IF dbOk /\ logOk /\ ticketOk THEN "done" ELSE "raised"

\* Where process_invoice ends after its three writes: the exception of the
\* Postgres write is caught and logged (lines 267-269), the exceptions of the
\* Redis pushes are not caught.
AfterWrites(dbOk, logOk, ticketOk) ==
  IF logOk /\ ticketOk THEN "done" ELSE "raised"

\* Lines 232-303.  The Postgres write may fail and is survived; the two
\* Redis pushes may raise, and the exception leaves process_invoice.
Finish(s) ==
  /\ pc[s] = "finish"
  /\ CanStep(s)
  /\ \E dbOk, logOk, ticketOk \in BOOLEAN :
       LET paused == TxStatus(result[s]) = "REQUIRES_APPROVAL"
           next == AfterWrites(dbOk, logOk, ticketOk)
       IN /\ (~logOk \/ ~paused) => ticketOk
          /\ transactions' = IF dbOk THEN Append(transactions, DbEntry(s))
                             ELSE transactions
          /\ dailyLogs' = IF logOk THEN << LogEntry(s) >> \o dailyLogs
                          ELSE dailyLogs
          /\ approvals' = IF logOk /\ paused /\ ticketOk
                            THEN << ApprovalData(s) >> \o approvals
                            ELSE approvals
          /\ emails' = [emails EXCEPT ![s] =
                          IF logOk /\ paused /\ ticketOk THEN @ + 1 ELSE @]
          /\ calls' = [calls EXCEPT ![s] =
                          IF logOk /\ paused /\ ticketOk THEN @ \cup {"email"} ELSE @]
          /\ response' = [response EXCEPT ![s] =
                            IF next = "raised" THEN RaisedResponse("NONE")
                            ELSE IF paused THEN PausedResponse(s)
                            ELSE SagaResponse(result[s])]
          /\ pc' = [pc EXCEPT ![s] = next]
          /\ running' = LoopAfter(s, next)
  /\ UNCHANGED << amount, vendor, limit, validation, bal, nonce, result >>
  /\ UNCHANGED << configVars, chainVars, store, alerts, reservations >>
  /\ UNCHANGED << retryVars, securityVars, utilityVars >>

----------------------------------------------------------------------------
(* POST /api/settings/limit *)

\* set_approval_limit as it would be if the limit were state shared with the
\* sagas in flight instead of a value each saga reads once: the write also
\* replaces the limit of every saga that has read one and has not finished.
SetApprovalLimitShared(v) ==
  /\ running = None
  /\ store # Some(v)
  /\ store' = Some(v)
  /\ limit' = [s \in Sagas |->
                 IF limit[s] # None /\ ~Finished(pc[s]) THEN Some(v) ELSE limit[s]]
  /\ UNCHANGED << running, pc, amount, vendor, validation, bal, nonce, calls,
                  emails, result, response >>
  /\ UNCHANGED << configVars, chainVars, alerts, dailyLogs, approvals, dbVars >>
  /\ UNCHANGED << retryVars, securityVars, utilityVars >>

\* set_approval_limit writes the new limit to Redis.  It is a coroutine of
\* the same event loop and runs when no other task holds the loop.  (When
\* Redis is unreachable the write raises and nothing changes.)
SetApprovalLimit(v) ==
  /\ running = None
  /\ store # Some(v)
  /\ store' = Some(v)
  /\ UNCHANGED << running, sagaVars, configVars, chainVars, alerts, dailyLogs,
                  approvals, dbVars >>
  /\ UNCHANGED << retryVars, securityVars, utilityVars >>

----------------------------------------------------------------------------

Next ==
  \/ \E s \in Sagas : Submit(s)
  \/ \E s \in Sagas : Validate(s)
  \/ \E s \in Sagas : Reserve(s)
  \/ \E s \in Sagas : ReserveReturn(s)
  \/ \E s \in Sagas : ChainReadBalance(s)
  \/ \E s \in Sagas : ChainLiquidity(s)
  \/ \E s \in Sagas : ChainNonce(s)
  \/ \E s \in Sagas : ChainSend(s)
  \/ \E s \in Sagas : Finish(s)
  \/ \E v \in LimitValues : SetApprovalLimit(v)
  \/ Mine

Spec == Init /\ [][Next]_vars

----------------------------------------------------------------------------
(* exception/retry_logic.py: RetryConfig.get_delay and retry_async *)

\* Powers are kept exactly up to Beyond; a larger power is kept as some
\* number above Beyond.  Every modelled initial_delay times Beyond exceeds
\* every modelled max_delay, so min(initial_delay * power, max_delay) is the
\* same for the number kept as for the power itself.
Beyond == 1024

RECURSIVE PowFrom(_, _, _)
PowFrom(acc, b, n) ==
  IF n = 0 \/ b = 1 \/ acc >= Beyond THEN acc ELSE PowFrom(acc * b, b, n - 1)

Pow(b, n) == PowFrom(1, b, n)

Min(a, b) == IF a < b THEN a ELSE b

\* min(self.initial_delay * (self.exponential_base ** attempt), self.max_delay).
\* The inputs are such that the division is exact.
BackoffDelay(cfg, n) ==
  Min((cfg.initial_delay * Pow(cfg.exponential_base.num, n))
         \div Pow(cfg.exponential_base.den, n),
      cfg.max_delay)

\* get_delay as it would be without the cap "min(..., self.max_delay)".
GetDelayUncapped(cfg, n, f) ==
  LET d == (cfg.initial_delay * Pow(cfg.exponential_base.num, n))
             \div Pow(cfg.exponential_base.den, n)
  IN IF cfg.jitter THEN (d * f) \div 10 ELSE d

\* RetryConfig.get_delay(attempt); f is the value of 0.5 + random.random(),
\* in tenths.
GetDelay(cfg, n, f) ==
  IF cfg.jitter
    THEN (BackoffDelay(cfg, n) * f) \div 10
    ELSE BackoffDelay(cfg, n)

\* The exception object raised by invocation number i of func.
Exc(kind, i) == [kind |-> kind, at |-> i]

\* "raise last_exception" with last_exception = None: Python raises
\* TypeError (exceptions must derive from BaseException).
RaiseNone == [kind |-> "TypeError", at |-> 0]

\* "except retriable_exceptions as e" as it would be with "except Exception".
IsRetriableWhateverClass(e, retriable) == TRUE

\* "except retriable_exceptions as e"
IsRetriable(e, retriable) == e.kind \in retriable

\* "if attempt < config.max_attempts - 1" as it would be without the "- 1".
SleepsEvenAfterLast(att, cfg) == att < cfg.max_attempts

\* "if attempt < config.max_attempts - 1": a sleep follows the failure.
SleepsBeforeNext(att, cfg) == att < cfg.max_attempts - 1

\* "for attempt in range(config.max_attempts)": there is an iteration att.
HasIteration(att, cfg) == att < cfg.max_attempts

\* "last_exception = e" as it would be if only the first failure were kept.
RecordFirstFailure(last, e) == IF last = None THEN Some(e) ELSE last

\* "last_exception = e"
RecordFailure(last, e) == Some(e)

\* "raise last_exception"
RaiseLast(last) == IF last = None THEN RaiseNone ELSE Val(last)

\* retry_async is called: "config = config or RetryConfig()",
\* "last_exception = None", and the loop starts, or with max_attempts <= 0
\* has no iteration and control reaches "raise last_exception".
RetryStart ==
  /\ rpc = "start"
  /\ attempt' = 0
  /\ last_exception' = None
  /\ IF HasIteration(0, config)
       THEN rpc' = "call" /\ UNCHANGED retryResult
       ELSE /\ rpc' = "raised"
            /\ retryResult' = [kind |-> "raised", value |-> Some(RaiseLast(None))]
  /\ UNCHANGED << config, retriable_exceptions, invoked, slept >>
  /\ UNCHANGED << paymentVars, securityVars, utilityVars >>

\* One iteration of the loop up to its suspension: func is awaited and
\* returns, or raises an exception that is not caught, or raises a retriable
\* one, which is recorded; then the delay is computed and the sleep starts, or
\* on the last iteration the loop ends and last_exception is raised.
RetryInvoke ==
  /\ rpc = "call"
  /\ LET i == Len(invoked) + 1 IN
     \E out \in {"ok"} \cup ExceptionKinds :
       /\ invoked' = Append(invoked, out)
       /\ IF out = "ok"
            THEN /\ rpc' = "returned"
                 /\ retryResult' = [kind |-> "returned", value |-> Some(i)]
                 /\ UNCHANGED << last_exception, slept >>
            ELSE IF ~IsRetriable(Exc(out, i), retriable_exceptions)
              THEN /\ rpc' = "raised"
                   /\ retryResult' = [kind |-> "raised", value |-> Some(Exc(out, i))]
                   /\ UNCHANGED << last_exception, slept >>
              ELSE /\ last_exception' = RecordFailure(last_exception, Exc(out, i))
                   /\ IF SleepsBeforeNext(attempt, config)
                        THEN /\ \E f \in JitterFactors :
                                  slept' = Append(slept, GetDelay(config, attempt, f))
                             /\ rpc' = "sleep"
                             /\ UNCHANGED retryResult
                        ELSE /\ rpc' = "raised"
                             /\ retryResult' =
                                  [kind |-> "raised",
                                   value |-> Some(RaiseLast(last_exception'))]
                             /\ UNCHANGED slept
  /\ UNCHANGED << config, retriable_exceptions, attempt >>
  /\ UNCHANGED << paymentVars, securityVars, utilityVars >>

\* asyncio.sleep(delay) is over: the next iteration of the loop begins, or
\* there is none and last_exception is raised.  (In the code a sleep is
\* always followed by an iteration.)
RetryWake ==
  /\ rpc = "sleep"
  /\ attempt' = attempt + 1
  /\ IF HasIteration(attempt + 1, config)
       THEN rpc' = "call" /\ UNCHANGED retryResult
       ELSE /\ rpc' = "raised"
            /\ retryResult' =
                 [kind |-> "raised", value |-> Some(RaiseLast(last_exception))]
  /\ UNCHANGED << config, retriable_exceptions, last_exception, invoked, slept >>
  /\ UNCHANGED << paymentVars, securityVars, utilityVars >>

\* A call retry_async(func, config=..., retriable_exceptions=...) is about to
\* be made; the rest of the program is at rest.
RetryInit ==
  /\ PaymentAtRest
  /\ RateLimiterNew(1) /\ SanitizeNotStarted /\ UtilitiesAtRest
  /\ config \in RetryConfigs
  /\ retriable_exceptions \in RetriableSets
  /\ attempt = 0
  /\ last_exception = None
  /\ rpc = "start"
  /\ invoked = << >>
  /\ slept = << >>
  /\ retryResult = NoRetryResult

RetryNext == RetryStart \/ RetryInvoke \/ RetryWake

SpecRetry == RetryInit /\ [][RetryNext]_vars

----------------------------------------------------------------------------
(* exception/retry_logic.py: RetryConfig.get_delay called on its own *)

\* sys.float_info.max_exp: a float power "base ** n" of 2^FloatMaxExp or more
\* is not a float, and Python raises OverflowError for it.
FloatMaxExp == 1024

\* The exponent of the modelled bases 1/2, 1 and 2 as powers of two.
Log2(b) ==
  IF b.num = 2 * b.den THEN 1 ELSE IF b.num = b.den THEN 0 ELSE 0 - 1

\* "self.exponential_base ** attempt" raises OverflowError.
PowOverflows(b, n) == Log2(b) * n >= FloatMaxExp

\* The largest small attempt index get_delay is called with.
MaxIndex == 2

\* The attempt indexes get_delay is called with: the first ones, and the two
\* around the largest power of two a float holds.  (With a base below 1 only
\* the first ones, where the delay is a whole number of milliseconds.)
AttemptIndexes(cfg) ==
  (0..MaxIndex)
    \cup (IF cfg.exponential_base.num >= cfg.exponential_base.den
            THEN {FloatMaxExp - 1, FloatMaxExp} ELSE {})

\* The RetryConfig objects get_delay is called on (max_attempts plays no part).
DelayConfigs ==
  {c \in RetryConfigs : c.max_attempts = DefaultRetryConfig.max_attempts}

DelayReturned(d) == [kind |-> "returned", value |-> Some(d), error |-> "NONE"]

DelayRaised(e) == [kind |-> "raised", value |-> None, error |-> e]

\* config.get_delay(n), called once for the attempt index n.
CallGetDelay(n) ==
  /\ n \in AttemptIndexes(delayConfig) \ DOMAIN delays
  /\ \E f \in JitterFactors :
       delays' =
         [m \in DOMAIN delays \cup {n} |->
            IF m # n THEN delays[m]
            ELSE IF PowOverflows(delayConfig.exponential_base, n)
                   THEN DelayRaised("OverflowError")
                   ELSE DelayReturned(GetDelay(delayConfig, n, f))]
  /\ UNCHANGED delayConfig
  /\ UNCHANGED << paymentVars, retryVars, securityVars, seedVars >>

DelayInit ==
  /\ PaymentAtRest
  /\ RetryNotStarted /\ RateLimiterNew(1) /\ SanitizeNotStarted
  /\ DatabaseNotSeeded
  /\ delayConfig \in DelayConfigs
  /\ delays = << >>

DelayNext == \E n \in 0..FloatMaxExp : CallGetDelay(n)

SpecDelay == DelayInit /\ [][DelayNext]_vars

----------------------------------------------------------------------------
(* init_db.py: init_db, and app.py: startup_event *)

\* "retries = 5"
InitialRetries == 5

\* "Wallet(user_id='user_1', balance=4200.00, monthly_burn=1000.0)"
SeedBalance == 4200

\* The largest number of init_db calls, and of startup_event calls, of one
\* behaviour.
MaxRuns == 2

WalletRow(b) == [user_id |-> "user_1", balance |-> b, monthly_burn |-> 1000]

\* get_password_hash(password); the stored value stands for the password.
GetPasswordHash(password) == << "hash", password >>

UserRow(name, password) ==
  [username |-> name, hashed_password |-> GetPasswordHash(password)]

\* What the tables hold when the process starts: nothing (a new database), the
\* seed rows of an earlier start, or rows that were changed since (the wallet
\* was spent from, the administrator chose another password).
ExistingWallets == {<< >>, << WalletRow(SeedBalance) >>, << WalletRow(1000) >>}

ExistingUsers ==
  {<< >>, << UserRow("admin", "admin123") >>, << UserRow("admin", "changed") >>}

\* "db.query(Wallet).filter_by(user_id='user_1').first()"
FirstWallet(ws, uid) ==
  LET found == SelectSeq(ws, LAMBDA r : r.user_id = uid)
  IN IF found = << >> THEN None ELSE Some(Head(found))

\* "db.query(User).filter_by(username='admin').first()"; get_user(db, name)
\* of auth.py is taken to be the same query.
FirstUser(us, name) ==
  LET found == SelectSeq(us, LAMBDA r : r.username = name)
  IN IF found = << >> THEN None ELSE Some(Head(found))

\* SeedWallet as it would be without the test "if not ...first()", written as
\* an upsert: the row of user_1 is set to the seed values.
SeedWalletOverwrites(ws) ==
  SelectSeq(ws, LAMBDA r : r.user_id # "user_1")
    \o << WalletRow(SeedBalance) >>

\* Lines 25-27: the wallet of user_1 is added unless there is one.
SeedWallet(ws) ==
  IF FirstWallet(ws, "user_1") = None
    THEN Append(ws, WalletRow(SeedBalance))
    ELSE ws

\* Lines 30-35: the user admin is added unless there is one.
SeedAdmin(us) ==
  IF FirstUser(us, "admin") = None
    THEN Append(us, UserRow("admin", "admin123"))
    ELSE us

\* create_user(db, name, password) of auth.py: the user is added to the table
\* with the hash of the password.
CreateUser(us, name, password) == Append(us, UserRow(name, password))

\* The constraints of models.py the database checks at commit: user_id is the
\* primary key of wallets, username is unique in users.
KeysUnique(ws, us) ==
  /\ \A i, j \in DOMAIN ws : ws[i].user_id = ws[j].user_id => i = j
  /\ \A i, j \in DOMAIN us : us[i].username = us[j].username => i = j

\* "retries -= 1" as it would be if the handler forgot it.
RetriesAfterFailureKept(r) == r

\* "retries -= 1"
RetriesAfterFailure(r) == r - 1

\* init_db is called: "retries = 5", and the loop is entered.
InitDbCall ==
  /\ dbpc \in {"idle", "returned", "raised"}
  /\ initRuns < MaxRuns
  /\ initRuns' = initRuns + 1
  /\ retries' = InitialRetries
  /\ attempts' = << >>
  /\ initResult' = "NONE"
  /\ dbpc' = "attempting"
  /\ UNCHANGED << wallets, users, seedings, startups >>
  /\ UNCHANGED << paymentVars, retryVars, securityVars, delayVars >>

\* One pass of the loop body, lines 14-45.  create_all, the two queries and
\* the commit talk to the database: each may raise OperationalError (the
\* session is dropped, nothing is committed) or another exception, which no
\* handler of init_db catches.  A commit that breaks a key constraint raises
\* IntegrityError.  When all return, both seed rows are committed together.
InitDbAttempt ==
  /\ dbpc = "attempting"
  /\ \E o \in {"ok", "OperationalError", "ProgrammingError"} :
       LET ws == SeedWallet(wallets)
           us == SeedAdmin(users)
           did == IF o = "ok" /\ ~KeysUnique(ws, us) THEN "IntegrityError" ELSE o
       IN /\ attempts' = Append(attempts, did)
          /\ CASE did = "ok" ->
                    /\ wallets' = ws
                    /\ users' = us
                    /\ dbpc' = "returned"
                    /\ initResult' = "returned"
                    /\ seedings' = seedings + 1
                    /\ UNCHANGED retries
               [] did = "OperationalError" ->
                    /\ retries' = RetriesAfterFailure(retries)
                    /\ dbpc' = "sleeping"
                    /\ UNCHANGED << wallets, users, initResult, seedings >>
               [] OTHER ->
                    /\ dbpc' = "raised"
                    /\ initResult' = did
                    /\ UNCHANGED << wallets, users, retries, seedings >>
  /\ UNCHANGED << initRuns, startups >>
  /\ UNCHANGED << paymentVars, retryVars, securityVars, delayVars >>

\* time.sleep(2) is over: "while retries > 0" is tested; the loop goes on or
\* line 47 raises.
InitDbWake ==
  /\ dbpc = "sleeping"
  /\ IF retries > 0
       THEN /\ dbpc' = "attempting"
            /\ UNCHANGED initResult
       ELSE /\ dbpc' = "raised"
            /\ initResult' = "CouldNotConnect"
  /\ UNCHANGED << wallets, users, retries, attempts, initRuns, seedings,
                  startups >>
  /\ UNCHANGED << paymentVars, retryVars, securityVars, delayVars >>

\* startup_event, app.py lines 199-208: the admin user is created unless
\* get_user finds one; every exception is caught and logged.
Startup ==
  /\ startups < MaxRuns
  /\ startups' = startups + 1
  /\ \E ok \in BOOLEAN :
       LET us == IF FirstUser(users, "admin") = None
                   THEN CreateUser(users, "admin", "admin123") ELSE users
       IN users' = IF ok /\ KeysUnique(wallets, us) THEN us ELSE users
  /\ UNCHANGED << wallets, dbpc, retries, attempts, initResult, initRuns,
                  seedings >>
  /\ UNCHANGED << paymentVars, retryVars, securityVars, delayVars >>

SeedInit ==
  /\ PaymentAtRest
  /\ RetryNotStarted /\ RateLimiterNew(1) /\ SanitizeNotStarted
  /\ DelayNotStarted
  /\ InitDbNotCalled
  /\ wallets \in ExistingWallets
  /\ users \in ExistingUsers

SeedNext == InitDbCall \/ InitDbAttempt \/ InitDbWake \/ Startup

SpecSeed == SeedInit /\ [][SeedNext]_vars

----------------------------------------------------------------------------
(* security/rate_limit.py: RateLimiter and rate_limit_middleware *)

\* The largest requests_per_minute a RateLimiter is constructed with.  (The
\* instance of the module is RateLimiter(requests_per_minute=100).)
MaxRate == 3

\* "minute_ago = now - 60"
WindowSeconds == 60

\* The values time.time() takes at the calls of the limiter.
Instants == {0, 30, 60, 90}

\* What rate_limit_middleware reads of a request: the first entry of the
\* X-Forwarded-For header ("" when absent), the peer address, and whether the
\* path is one of the health checks.
Requests ==
  [forwarded_for : {"", "a", "b"}, host : ClientIds, health : BOOLEAN]

\* "client_ip = request.headers.get('X-Forwarded-For', '').split(',')[0].strip()"
\* and the fallback to request.client.host.
ClientIp(req) == IF req.forwarded_for # "" THEN req.forwarded_for ELSE req.host

\* "[req_time for req_time in self.requests[client_id] if req_time > minute_ago]"
CleanOld(times, now) == SelectSeq(times, LAMBDA t : t > now - WindowSeconds)

\* is_allowed as it would be with "len(...) > self.requests_per_minute".
IsAllowedOneMore(times, now, rpm) == ~(Len(CleanOld(times, now)) > rpm)

\* is_allowed: its return value ...
IsAllowed(times, now, rpm) == ~(Len(CleanOld(times, now)) >= rpm)

\* ... and the list it leaves in self.requests[client_id].
RecordedAfter(times, now, rpm) ==
  IF IsAllowed(times, now, rpm)
    THEN Append(CleanOld(times, now), now)
    ELSE CleanOld(times, now)

\* get_remaining as it would be if it counted every recorded time.
GetRemainingUncleaned(times, now, rpm) ==
  IF rpm - Len(times) > 0 THEN rpm - Len(times) ELSE 0

\* get_remaining
GetRemaining(times, now, rpm) ==
  IF rpm - Len(CleanOld(times, now)) > 0
    THEN rpm - Len(CleanOld(times, now)) ELSE 0

\* time.time() has moved on.
Tick ==
  /\ \E t \in Instants : t > clock /\ clock' = t
  /\ UNCHANGED << requests_per_minute, requests, handled, lastResponse,
                  rateHeaders >>
  /\ UNCHANGED << paymentVars, retryVars, sanitizeVars, utilityVars >>

\* rate_limit_middleware for one request.  A health check goes to call_next
\* without a look at the limiter.  Any other request goes through is_allowed:
\* refused, the middleware raises HTTPException(429) with Retry-After: 60 and
\* call_next is not called; allowed, call_next is awaited (lines 59-78).
\* Neither is_allowed nor the path to the raise has an await, so the step is
\* atomic.
Middleware(req) ==
  LET c == ClientIp(req) IN
  /\ IF req.health
       THEN /\ lastResponse' = [client |-> c, limited |-> FALSE, status |-> 200,
                                retry_after |-> None, forwarded |-> TRUE,
                                at |-> clock]
            /\ UNCHANGED << requests, handled >>
       ELSE /\ requests' = [requests EXCEPT
                              ![c] = RecordedAfter(@, clock, requests_per_minute)]
            /\ IF IsAllowed(requests[c], clock, requests_per_minute)
                 THEN /\ handled' = [handled EXCEPT ![c] = Append(@, clock)]
                      /\ lastResponse' =
                           [client |-> c, limited |-> TRUE, status |-> 200,
                            retry_after |-> None, forwarded |-> TRUE,
                            at |-> clock]
                 ELSE /\ handled' = handled
                      /\ lastResponse' =
                           [client |-> c, limited |-> TRUE, status |-> 429,
                            retry_after |-> Some(60), forwarded |-> FALSE,
                            at |-> clock]
  /\ UNCHANGED << requests_per_minute, clock, rateHeaders >>
  /\ UNCHANGED << paymentVars, retryVars, sanitizeVars, utilityVars >>

\* call_next has returned for a request of client c that was let through
\* (lines 78-83): the middleware asks get_remaining and sets the two
\* X-RateLimit headers.  Time has passed and other requests were handled while
\* call_next was awaited, so the step may come at any later moment; the
\* requests still inside call_next are not counted.
AddHeaders(c) ==
  /\ handled[c] # << >>
  /\ rateHeaders' =
       [client |-> c,
        remaining |-> GetRemaining(requests[c], clock, requests_per_minute),
        limit |-> requests_per_minute]
  /\ UNCHANGED << requests_per_minute, requests, clock, handled, lastResponse >>
  /\ UNCHANGED << paymentVars, retryVars, sanitizeVars, utilityVars >>

\* A RateLimiter has been constructed and no request has come in.
RateInit ==
  /\ PaymentAtRest
  /\ RetryNotStarted /\ SanitizeNotStarted /\ UtilitiesAtRest
  /\ \E n \in 1..MaxRate : RateLimiterNew(n)

RateNext ==
  \/ Tick
  \/ \E req \in Requests : Middleware(req)
  \/ \E c \in ClientIds : AddHeaders(c)

SpecRate == RateInit /\ [][RateNext]_vars

----------------------------------------------------------------------------
(* security/sanitize.py: InputSanitizer.sanitize_string *)

\* The longest input string and the largest max_length.
MaxInputLen == 3

\* Strings are sequences of characters.  The characters of the inputs: a
\* letter, a blank, two of the HTML special characters and the semicolon.
Alphabet == {"x", " ", "&", "<", ";"}

InputStrings == UNION {[1..n -> Alphabet] : n \in 0..MaxInputLen}

\* SQLInjectionPrevention.is_dangerous: of DANGEROUS_SQL_PATTERNS only
\* "(--|;|/\*|\*/)" can match a string over Alphabet, by its semicolon.
SqlIsDangerous(s) == \E i \in DOMAIN s : s[i] = ";"

\* XSSPrevention.is_dangerous: every pattern of XSS_PATTERNS needs letters
\* that Alphabet does not have (script, on..=, iframe, javascript:, embed,
\* object), so no input of the model matches.
XssIsDangerous(s) == FALSE

\* user_input[:max_length] for max_length >= 0
Truncate(s, n) == SubSeq(s, 1, IF n < Len(s) THEN n ELSE Len(s))

RECURSIVE LStrip(_)
LStrip(s) == IF s # << >> /\ Head(s) = " " THEN LStrip(Tail(s)) ELSE s

RECURSIVE RStrip(_)
RStrip(s) ==
  IF s # << >> /\ s[Len(s)] = " " THEN RStrip(SubSeq(s, 1, Len(s) - 1)) ELSE s

\* user_input.strip()
Strip(s) == RStrip(LStrip(s))

\* text.replace(char, escaped)
RECURSIVE Replace(_, _, _)
Replace(s, char, escaped) ==
  IF s = << >> THEN << >>
  ELSE (IF Head(s) = char THEN escaped ELSE << Head(s) >>)
         \o Replace(Tail(s), char, escaped)

\* XSSPrevention.escape_html: the five replacements in the order of the dict.
EscapeHtml(text) ==
  LET t1 == Replace(text, "&", << "&", "a", "m", "p", ";" >>)
      t2 == Replace(t1, "<", << "&", "l", "t", ";" >>)
      t3 == Replace(t2, ">", << "&", "g", "t", ";" >>)
      t4 == Replace(t3, "\"", << "&", "q", "u", "o", "t", ";" >>)
  IN Replace(t4, "'", << "&", "#", "x", "2", "7", ";" >>)

\* sanitize_string for a str argument that passes both checks.
SanitizeString(s, n, html) ==
  LET stripped == Strip(Truncate(s, n))
  IN IF html THEN stripped ELSE EscapeHtml(stripped)

\* One call of sanitize_string: "" for an argument that is no str, ValueError
\* for one that looks dangerous, else the sanitized string.
Sanitize ==
  /\ sanitized.kind = "NONE"
  /\ sanitized' =
       IF user_input = None THEN [kind |-> "returned", value |-> << >>]
       ELSE IF SqlIsDangerous(Val(user_input)) \/ XssIsDangerous(Val(user_input))
         THEN [kind |-> "raised", value |-> << >>]
         ELSE [kind |-> "returned",
               value |-> SanitizeString(Val(user_input), max_length, allow_html)]
  /\ UNCHANGED << user_input, max_length, allow_html >>
  /\ UNCHANGED << paymentVars, retryVars, rateVars, utilityVars >>

\* sanitize_string is about to be called with some argument that is a string
\* or is none, some max_length >= 0 and some allow_html.
SanitizeInit ==
  /\ PaymentAtRest
  /\ RetryNotStarted /\ RateLimiterNew(1) /\ UtilitiesAtRest
  /\ user_input \in {None} \cup {Some(s) : s \in InputStrings}
  /\ max_length \in 0..MaxInputLen
  /\ allow_html \in BOOLEAN
  /\ sanitized = NoSanitizeResult

SanitizeNext == Sanitize

SpecSanitize == SanitizeInit /\ [][SanitizeNext]_vars

----------------------------------------------------------------------------
(* Properties of the payment saga *)

\* execute_payment_saga of call s has returned an outcome.
Returned(s) == result[s].status # "NONE"

\* The limit was read and the amount is within it.
WithinLimit(s) == limit[s] # None /\ amount[s] <= Val(limit[s])

\* The liquidity check read a balance that covers the amount.
Funded(s) == bal[s] # None /\ Val(bal[s]) >= amount[s]

\* The node took a transaction broadcast by s.
Accepted(s) == \E b \in broadcasts : b.saga = s /\ b.accepted

\* The chain calls of the chain step.
ChainCalls == {"balance", "nonce", "sign", "send"}

\* The tickets of treasury:approvals that belong to call s.
Tickets(s) == {i \in DOMAIN approvals : approvals[i].id = s}

\* C1 as stated: every saga with 0 < amount <= limit (the limit read at
\* validation) whose paying account holds at least the amount ends in SUCCESS
\* with a transaction hash.
C1_FundedRequestSucceeds_AsStated ==
  \A s \in Sagas :
    (Returned(s) /\ 0 < amount[s] /\ WithinLimit(s) /\ Funded(s))
      => (result[s].status = "SUCCESS" /\ result[s].tx_hash # None)

\* C1 amended: a saga with 0 < amount <= limit whose liquidity check read a
\* balance of at least the amount ends in SUCCESS with the hash of a
\* transaction the node took, unless a call of the chain step after the
\* check raised (nonce, gas price, construction of the transfer, broadcast);
\* then it ends FAILED with reason FAILED_CHAIN_ERROR and without a hash.
C1_FundedRequestSucceedsUnlessChainRaises ==
  \A s \in Sagas :
    (Returned(s) /\ 0 < amount[s] /\ WithinLimit(s) /\ Funded(s))
      => \/ /\ result[s].status = "SUCCESS"
            /\ result[s].tx_hash = Some(<< s, Val(nonce[s]) >>)
            /\ Accepted(s)
         \/ /\ result[s].status = "FAILED"
            /\ result[s].reason = "FAILED_CHAIN_ERROR"
            /\ result[s].tx_hash = None

\* C1 witness: the scenario amount=45, default limit 50, balance=100 ended
\* in SUCCESS.
C1_Witness ==
  \E s \in Sagas :
    /\ result[s].status = "SUCCESS"
    /\ amount[s] = 45 /\ limit[s] = Some(DefaultLimit) /\ bal[s] = Some(100)

\* C2: a request whose amount exceeds the limit read at validation is
\* answered PAUSED, and neither the reservation step nor any chain call
\* (balance read, nonce, signing, broadcast) is ever made for it.
C2_OverLimitPausesWithoutReserveOrChain ==
  \A s \in Sagas :
    (limit[s] # None /\ amount[s] > Val(limit[s]))
      => /\ result[s].status = "PAUSED"
         /\ calls[s] \cap ({"reserve"} \cup ChainCalls) = {}
         /\ bal[s] = None /\ nonce[s] = None
         /\ ~\E b \in broadcasts : b.saga = s

\* C2 witness: a request above a stored limit was answered PAUSED and
\* process_invoice has finished.
C2_Witness ==
  \E s \in Sagas :
    /\ limit[s] = Some(40) /\ amount[s] = 45
    /\ result[s].status = "PAUSED" /\ Finished(pc[s])

\* C3 as stated: once process_invoice is over, the request has exactly one
\* ticket, with status PENDING, if the saga's outcome is PAUSED and no ticket
\* otherwise.
C3_TicketIffPaused_AsStated ==
  \A s \in Sagas :
    (Finished(pc[s]) /\ Returned(s))
      => /\ Cardinality(Tickets(s)) = IF result[s].status = "PAUSED" THEN 1 ELSE 0
         /\ \A i \in Tickets(s) : approvals[i].status = "PENDING"

\* C4 as stated: a saga with amount <= limit whose liquidity check read
\* less than the amount ends FAILED with the insufficient-liquidity kind and
\* exactly one notification (send_alert call).
C4_NoLiquidityFailsWithOneAlert_AsStated ==
  \A s \in Sagas :
    (Returned(s) /\ WithinLimit(s) /\ bal[s] # None /\ Val(bal[s]) < amount[s])
      => /\ result[s].status = "FAILED"
         /\ result[s].reason = "FAILED_NO_LIQUIDITY"
         /\ emails[s] = 1

\* C5 as stated: two sagas that both broadcast use different nonces.
C5_DistinctNonces_AsStated ==
  \A b1, b2 \in broadcasts : b1.saga # b2.saga => b1.nonce # b2.nonce

\* A saga is in the critical section of the signing key from the moment it
\* has its nonce until its broadcast is over.
InCritical(s) == pc[s] = "send"

\* C6: no saga acquires a nonce while another saga holds a nonce and has not
\* finished its broadcast: at most one saga is between nonce and broadcast.
C6_NonceToBroadcastIsSerialized ==
  \A s, t \in Sagas : (InCritical(s) /\ InCritical(t)) => s = t

\* C6 witness: a saga is between nonce and broadcast while another approved
\* saga is in flight (suspended in its reservation step).
C6_Witness ==
  \E s, t \in Sagas : s # t /\ InCritical(s) /\ pc[t] = "sleeping"

\* C7 as stated: the policy gate approves exactly the amounts with
\* 0 < amount <= limit.
C7_GateApprovesOnlyPositiveWithinLimit_AsStated ==
  \A s \in Sagas :
    validation[s] # "NONE"
      => (validation[s] = "APPROVED" <=> (0 < amount[s] /\ WithinLimit(s)))

\* C8 as stated: an approved request whose vendor is no well-formed address
\* ends FAILED and nothing is broadcast for it.
C8_UnresolvablePayeeFails_AsStated ==
  \A s \in Sagas :
    (Returned(s) /\ validation[s] = "APPROVED" /\ ~WellFormedAddress(vendor[s]))
      => /\ result[s].status = "FAILED"
         /\ ~\E b \in broadcasts : b.saga = s

\* C9 as stated: no chain call is made for a request without a reservation
\* record written for it before.
C9_ReservationRecordBeforeChainCall_AsStated ==
  \A s \in Sagas :
    calls[s] \cap ChainCalls # {} => \E r \in reservations : r.saga = s

\* The reservation records of request s, and those in a given state.
ReservationsOf(ledger, s) == {r \in ledger : r.saga = s}

\* execute_payment_saga reached "if not reserved" with reserved = True: in
\* the saga's own terms the reservation of s was made.
ReservationMade(s) ==
  "reserve" \in calls[s] /\ pc[s] \notin {"reserve", "sleeping"}

\* C11 as stated: a saga that ended in SUCCESS has exactly one reservation
\* record, and that record is COMMITTED and carries the settlement reference
\* (the transaction hash of the outcome).
C11_SuccessHasOneCommittedReservation_AsStated ==
  \A s \in Sagas :
    result[s].status = "SUCCESS"
      => /\ Cardinality(ReservationsOf(reservations, s)) = 1
         /\ \A r \in ReservationsOf(reservations, s) :
              r.state = "COMMITTED" /\ Some(r.tx) = result[s].tx_hash

\* C12 as stated: a saga that ended FAILED after its reservation was made has
\* had the reservation released: it has a reservation record, and none of its
\* records is still RESERVED.
C12_FailedSagaReleasesReservation_AsStated ==
  \A s \in Sagas :
    (result[s].status = "FAILED" /\ ReservationMade(s))
      => /\ ReservationsOf(reservations, s) # {}
         /\ \A r \in ReservationsOf(reservations, s) : r.state = "RELEASED"

\* C13 as stated: running the reservation step twice for a request whose
\* reservation was made leaves exactly one ledger record for that request.
C13_ReserveTwiceLeavesOneRecord_AsStated ==
  \A s \in Sagas :
    ReservationMade(s)
      => Cardinality(ReservationsOf(
           LedgerAfterReserve(LedgerAfterReserve(reservations, s), s), s)) = 1

\* The number of times execute_payment_saga has invoked the chain step for s:
\* the step is called once, at line 61, and not through retry_async.
ChainAttempts(s) ==
  IF pc[s] \in {"liquidity", "nonce", "send"}
       \/ (ReservationMade(s) /\ pc[s] # "chain")
    THEN 1 ELSE 0

\* The chain step of s failed with a transient failure: a read of the node
\* (balance, nonce, gas price) raised, and nothing was broadcast.
TransientChainFailure(s) ==
  /\ result[s].status = "FAILED"
  /\ result[s].reason = "FAILED_CHAIN_ERROR"
  /\ result[s].msg = "RPC_ERROR"
  /\ "send" \notin calls[s]

\* C14 as stated, in its finite form: a saga gives up on a transient chain
\* failure only when its attempts are used up; after a transient failure on
\* fewer than max_attempts attempts it tries again (and so ends in SUCCESS if
\* the next attempt succeeds) instead of ending FAILED.
C14_TransientFailureIsRetried_AsStated ==
  \A s \in Sagas :
    TransientChainFailure(s) => ChainAttempts(s) >= DefaultRetryConfig.max_attempts

\* The configuration is one whose backoff starts at initial_delay and grows
\* towards max_delay.
OrderedConfig(cfg) ==
  /\ cfg.initial_delay <= cfg.max_delay
  /\ cfg.exponential_base.num >= cfg.exponential_base.den

AllAttemptsFailedRetriably ==
  /\ config.max_attempts >= 1
  /\ Len(invoked) = config.max_attempts
  /\ \A i \in DOMAIN invoked : invoked[i] \in retriable_exceptions

\* C16: when each of the max_attempts (>= 1) invocations raised a retriable
\* exception, retry_async raises the exception object of the last invocation,
\* not one of an earlier invocation and not another error.
C16_ExhaustionRaisesLastFailure ==
  (rpc = "raised" /\ AllAttemptsFailedRetriably)
    => retryResult =
         [kind |-> "raised",
          value |-> Some(Exc(invoked[Len(invoked)], Len(invoked)))]

\* C16 witness: three invocations failed with different retriable exceptions
\* and retry_async has raised.
C16_Witness ==
  /\ rpc = "raised" /\ AllAttemptsFailedRetriably
  /\ invoked = << "TimeoutError", "ConnectionError", "TimeoutError" >>
  /\ Len(slept) = 2

\* The decision of the policy gate for s, from the limit s read.
DecisionOfRead(s) == LimitDecision(amount[s], Val(limit[s]))

\* C17: the limit a saga read at policy evaluation is the only limit it uses.
\* In every state the saga's decision is the one for the limit it read, and a
\* returned saga is PAUSED exactly if that decision is not APPROVED, whatever
\* the store holds by then; and no step, set_limit included, changes the limit
\* read, the decision or the returned outcome of a saga.
C17_LimitReadOncePerSaga ==
  /\ [](\A s \in Sagas :
          limit[s] # None
            => /\ validation[s] = DecisionOfRead(s)
               /\ Returned(s)
                    => (result[s].status = "PAUSED"
                          <=> DecisionOfRead(s) # "APPROVED"))
  /\ [][\A s \in Sagas :
          /\ limit[s] # None
               => (limit'[s] = limit[s] /\ validation'[s] = validation[s])
          /\ Returned(s) => result'[s] = result[s]]_vars

\* C17 witness: a saga read the default limit (nothing was stored), the store
\* was set to 40 while it was suspended in its reservation step, and the saga
\* with amount 45 went on to the chain step and returned an outcome that is
\* not PAUSED.
C17_Witness ==
  \E s \in Sagas :
    /\ redisClient /\ limit[s] = Some(DefaultLimit) /\ store = Some(40)
    /\ amount[s] = 45 /\ validation[s] = "APPROVED"
    /\ pc[s] = "finish" /\ result[s].status = "SUCCESS"

\* C18: while nothing is stored under the limit key, an evaluated request
\* with a positive amount is compared with the default limit 50: amounts up to
\* and including 50 are approved, amounts above 50 require approval and the
\* saga is PAUSED.
C18_DefaultLimitWhenNothingStored ==
  \A s \in Sagas :
    (store = None /\ validation[s] # "NONE" /\ amount[s] > 0)
      => /\ limit[s] = Some(50)
         /\ validation[s] =
              IF amount[s] <= 50 THEN "APPROVED" ELSE "REQUIRES_APPROVAL"
         /\ amount[s] > 50 => result[s].status = "PAUSED"
         /\ (amount[s] <= 50 /\ Returned(s)) => result[s].status # "PAUSED"

\* C18 witness: with a Redis client and nothing stored, a request of exactly
\* 50 was approved and a request of 75 was paused.
C18_Witness ==
  \E s, t \in Sagas :
    /\ redisClient /\ store = None
    /\ amount[s] = 50 /\ validation[s] = "APPROVED" /\ Returned(s)
    /\ amount[t] = 75 /\ result[t].status = "PAUSED"

\* The liquidity check of s found balance < amount.
LiquidityCheckFailed(s) ==
  bal[s] # None /\ InsufficientLiquidity(Val(bal[s]), amount[s])

\* An alert for s reached a notification sink: the push to treasury:alerts
\* was stored, or EmailService.send_alert was called.
AlertSent(s) ==
  \/ \E i \in DOMAIN alerts : alerts[i].saga = s
  \/ emails[s] >= 1

\* C19 as stated: a chain step whose liquidity check found balance < amount
\* returns the insufficient-liquidity failure, has acquired no nonce and has
\* built, signed and broadcast nothing, and an alert was sent.
C19_NoLiquidityReturnsWithoutNonceAndAlerts_AsStated ==
  \A s \in Sagas :
    (Returned(s) /\ LiquidityCheckFailed(s))
      => /\ result[s].reason = "FAILED_NO_LIQUIDITY"
         /\ nonce[s] = None
         /\ calls[s] \cap {"nonce", "sign", "send"} = {}
         /\ ~\E b \in broadcasts : b.saga = s
         /\ AlertSent(s)

\* The chain step of s tried to notify: it called lpush on treasury:alerts or
\* send_alert after a failed liquidity check.
AlertAttempted(s) ==
  LiquidityCheckFailed(s) /\ calls[s] \cap {"alert", "email"} # {}

\* C20 as stated: the outcome of a saga that tried to send an alert is the
\* outcome it has when the alert succeeds, whether the push or the e-mail
\* succeeded, failed or raised.
C20_AlertFailureKeepsOutcome_AsStated ==
  \A s \in Sagas :
    (Returned(s) /\ AlertAttempted(s))
      => result[s] = ChainOutcome(ChainNoLiquidity)

\* The position of a program point of process_invoice in the order of the
\* code: parse, policy evaluation, reservation (entry, sleep), chain step
\* (balance, liquidity check, nonce, broadcast), bookkeeping, end.
PcRank(p) ==
  CASE p = "new" -> 0
    [] p = "validate" -> 1
    [] p = "reserve" -> 2
    [] p = "sleeping" -> 3
    [] p = "chain" -> 4
    [] p = "liquidity" -> 5
    [] p = "nonce" -> 6
    [] p = "send" -> 7
    [] p = "finish" -> 8
    [] OTHER -> 9

\* The state of the saga of a process_invoice call at program point p with
\* outcome res: the status of the outcome once execute_payment_saga has
\* returned one; before that the step the saga is in; RAISED when the saga
\* ended with an exception and no outcome.
SagaStateOf(p, res) ==
  IF res.status # "NONE" THEN res.status
  ELSE CASE p = "new" -> "NOT_STARTED"
         [] p = "validate" -> "VALIDATING"
         [] p \in {"reserve", "sleeping"} -> "RESERVING"
         [] p \in {"chain", "liquidity", "nonce", "send"} -> "EXECUTING"
         [] OTHER -> "RAISED"

\* The transitions of the saga state machine as the claim has them; a call
\* whose invoice does not parse ends before a saga exists.
StatedTransitions ==
  { << "NOT_STARTED", "VALIDATING" >>, << "NOT_STARTED", "RAISED" >>,
    << "VALIDATING", "RESERVING" >>, << "VALIDATING", "PAUSED" >>,
    << "RESERVING", "EXECUTING" >>, << "RESERVING", "FAILED" >>,
    << "EXECUTING", "SUCCESS" >>, << "EXECUTING", "FAILED" >> }

\* One step of the program keeps saga s within the transitions T: the program
\* point moves forward or stays, the saga state stays or takes a transition
\* of T, and a returned outcome is never replaced.
MovesWithin(s, T) ==
  /\ pc'[s] = pc[s] \/ PcRank(pc'[s]) > PcRank(pc[s])
  /\ \/ SagaStateOf(pc'[s], result'[s]) = SagaStateOf(pc[s], result[s])
     \/ << SagaStateOf(pc[s], result[s]), SagaStateOf(pc'[s], result'[s]) >> \in T
  /\ Returned(s) => result'[s] = result[s]

\* C21 as stated: every step of every saga follows
\* VALIDATING -> RESERVING -> EXECUTING -> {SUCCESS, FAILED, PAUSED}: no
\* program point is entered twice, and a started saga ends only in SUCCESS,
\* FAILED or PAUSED.
C21_ForwardOnlyToThreeOutcomes_AsStated ==
  [][\A s \in Sagas : MovesWithin(s, StatedTransitions)]_vars

\* C21 amended: as stated, with one more way to end: the saga leaves
\* VALIDATING with an exception and no outcome when the read of the policy
\* store raises.
C21_ForwardOnlyToOutcomeOrPolicyReadRaises ==
  [][\A s \in Sagas :
       MovesWithin(s, StatedTransitions \cup {<< "VALIDATING", "RAISED" >>})]_vars

\* C21 witness: one saga went through all three steps to SUCCESS, and
\* process_invoice is over for it, while another ended at policy evaluation
\* because the read of the policy store raised.
C21_Witness ==
  \E s, t \in Sagas :
    /\ result[s].status = "SUCCESS" /\ pc[s] = "done"
    /\ calls[s] = {"reserve", "balance", "nonce", "sign", "send"}
    /\ pc[t] = "raised" /\ ~Returned(t) /\ response[t].msg # "PARSE_ERROR"

\* C22 as stated: every answer of a finished process_invoice call is
\* well-formed: SUCCESS carries a transaction hash, FAILED carries a failure
\* reason and no hash, and a paused answer carries a reason and the id of
\* its ticket.
C22_OutcomeWellFormed_AsStated ==
  \A s \in Sagas :
    pc[s] = "done"
      => /\ response[s].status = "SUCCESS" => response[s].tx_hash # None
         /\ response[s].status = "FAILED"
              => (response[s].reason # "NONE" /\ response[s].tx_hash = None)
         /\ response[s].status = "PAUSED_FOR_APPROVAL"
              => (response[s].reason # "NONE" /\ response[s].approval_id # None)

\* The chain step of s was entered with WALLET_PRIVATE_KEY unset and is over:
\* "raise Exception('Missing Private Key in .env')" was executed.
MissingKeyRaised(s) ==
  ~keyPresent /\ ReservationMade(s) /\ pc[s] # "chain"

\* C23 as stated: the exception of a missing signing key is not turned into
\* an outcome: execute_payment_saga returns nothing for that saga and the
\* exception reaches its caller.
C23_UnexpectedFailurePropagates_AsStated ==
  \A s \in Sagas :
    MissingKeyRaised(s) => (~Returned(s) /\ pc[s] = "raised")

\* The send_raw_transaction calls made for s.
BroadcastsOf(s) == {b \in broadcasts : b.saga = s}

\* C24: a saga whose broadcast was refused has made exactly one broadcast
\* attempt, and with that refusal it has returned FAILED with the
\* chain-submission failure kind and without a transaction hash.
C24_RefusedBroadcastIsNotResubmitted ==
  \A s \in Sagas :
    (\E b \in BroadcastsOf(s) : ~b.accepted)
      => /\ Cardinality(BroadcastsOf(s)) = 1
         /\ result[s].status = "FAILED"
         /\ result[s].reason = "FAILED_CHAIN_ERROR"
         /\ result[s].tx_hash = None
         /\ pc[s] \in {"finish", "done", "raised"}

\* C24 witness: the node refused the one broadcast of a saga and
\* process_invoice has answered FAILED.
C24_Witness ==
  \E s \in Sagas :
    /\ BroadcastsOf(s) = {[saga |-> s, nonce |-> 0, to |-> "0xVALID",
                           accepted |-> FALSE]}
    /\ pc[s] = "done" /\ response[s].status = "FAILED"

\* C25 as stated: no answer of process_invoice contains the text of an
\* internal exception, whether the invoice failed to parse, the saga ended
\* FAILED or an exception was left unhandled.
C25_ResponseHidesExceptionText_AsStated ==
  \A s \in Sagas : response[s].msg = "NONE"

\* The number of rate-limited requests of client c that reached the handler
\* in the window of 60 seconds that ends at T: the times in (T - 60, T].
HandledInWindow(c, T) ==
  Cardinality({i \in DOMAIN handled[c] :
                 T - WindowSeconds < handled[c][i] /\ handled[c][i] <= T})

\* C26: in every window of 60 seconds at most requests_per_minute
\* rate-limited requests of a client reach the handler; a request is refused
\* exactly when the window that ends with it is full, and a refused request
\* is answered 429 with Retry-After and is not passed to the handler.
C26_AtMostLimitPerWindow ==
  /\ \A c \in ClientIds, T \in Instants :
       HandledInWindow(c, T) <= requests_per_minute
  /\ lastResponse.limited
       => /\ lastResponse.status \in {200, 429}
          /\ lastResponse.status = 429
               => /\ HandledInWindow(lastResponse.client, lastResponse.at)
                       = requests_per_minute
                  /\ lastResponse.retry_after # None
                  /\ ~lastResponse.forwarded
          /\ lastResponse.status = 200 => lastResponse.forwarded

\* C26 witness: a client used up its allowance at time 0, was served once
\* more at time 60, when the window had moved on, and was then refused at
\* time 60.
C26_Witness ==
  \E c \in ClientIds :
    /\ Len(handled[c]) = requests_per_minute + 1
    /\ HandledInWindow(c, 0) = requests_per_minute
    /\ HandledInWindow(c, 30) = requests_per_minute
    /\ handled[c][Len(handled[c])] = 60
    /\ lastResponse = [client |-> c, limited |-> TRUE, status |-> 429,
                       retry_after |-> Some(60), forwarded |-> FALSE, at |-> 60]

\* C27 as stated: a string returned by sanitize_string is at most max_length
\* characters long.
C27_SanitizedLengthWithinMax_AsStated ==
  sanitized.kind = "returned" => Len(sanitized.value) <= max_length

\* Invocation i of func raised an exception that is not in
\* retriable_exceptions.
FatalAt(i) ==
  i \in DOMAIN invoked /\ invoked[i] # "ok" /\ invoked[i] \notin retriable_exceptions

\* C28: when an invocation raises an exception that is not in
\* retriable_exceptions, that invocation is the last one, retry_async has
\* raised that very exception, and no sleep followed it: the sleeps are those
\* after the earlier, retriable failures.
C28_FatalFailurePropagatesAtOnce ==
  \A i \in DOMAIN invoked :
    FatalAt(i)
      => /\ i = Len(invoked)
         /\ rpc = "raised"
         /\ retryResult = [kind |-> "raised", value |-> Some(Exc(invoked[i], i))]
         /\ Len(slept) = i - 1

\* C28 witness: with attempts left (max_attempts = 3), the first invocation
\* failed with a non-retriable exception and retry_async has raised it.
C28_Witness ==
  /\ config.max_attempts = 3
  /\ invoked = << "ValueError" >> /\ FatalAt(1)
  /\ rpc = "raised" /\ slept = << >>

\* retry_async is over.
RetryOver == rpc \in {"returned", "raised"}

\* func failed retriably on its first k invocations, and these are all the
\* invocations made.
FailedRetriablyThrough(k) ==
  /\ k <= Len(invoked)
  /\ \A i \in 1..k : invoked[i] \in retriable_exceptions

\* C29: with max_attempts >= 1, when func fails retriably k times and then
\* succeeds, a finished retry_async has invoked it k + 1 times if
\* k < max_attempts and has returned the result of invocation k + 1, and has
\* invoked it max_attempts times and raised otherwise; in both cases it slept
\* once after every invocation but the last.  (Runs that end with a failure
\* that is not retriable are not the claim's case.)
C29_InvocationsAndSleepsCounted ==
  (RetryOver /\ config.max_attempts >= 1)
    => \/ /\ invoked[Len(invoked)] = "ok"
          /\ FailedRetriablyThrough(Len(invoked) - 1)
          /\ Len(invoked) <= config.max_attempts
          /\ retryResult = [kind |-> "returned", value |-> Some(Len(invoked))]
          /\ Len(slept) = Len(invoked) - 1
       \/ /\ FailedRetriablyThrough(Len(invoked))
          /\ Len(invoked) = config.max_attempts
          /\ retryResult.kind = "raised"
          /\ Len(slept) = Len(invoked) - 1
       \/ FatalAt(Len(invoked))

\* C29 witness: with max_attempts = 3, func failed twice and then succeeded;
\* retry_async returned the third result after two sleeps.
C29_Witness ==
  /\ config.max_attempts = 3
  /\ invoked = << "TimeoutError", "ConnectionError", "ok" >>
  /\ retryResult = [kind |-> "returned", value |-> Some(3)]
  /\ Len(slept) = 2

\* C30 as stated: for every configuration a finished retry_async has invoked
\* func at least once, and has returned its result or raised an exception
\* that func raised.
C30_AtLeastOneInvocation_AsStated ==
  RetryOver
    => /\ Len(invoked) >= 1
       /\ retryResult.kind = "raised"
            => \E i \in DOMAIN invoked :
                 invoked[i] # "ok" /\ retryResult.value = Some(Exc(invoked[i], i))


----------------------------------------------------------------------------
(* Properties of RetryConfig.get_delay *)

\* The calls of get_delay that returned a delay.
DelaysReturned == {n \in DOMAIN delays : delays[n].kind = "returned"}

\* C31: every call get_delay(n), n >= 0, returns a delay.  With jitter off the
\* delay is min(initial_delay * exponential_base^n, max_delay), hence at most
\* max_delay and, for exponential_base >= 1, non-decreasing in n; with jitter
\* on it is that value times a factor in [0.5, 1.5).
\* Delays are in milliseconds, factors in tenths.
C31_DelayFormulaForEveryIndex_AsStated ==
  /\ \A n \in DOMAIN delays : delays[n].kind = "returned"
  /\ ~delayConfig.jitter =>
       /\ \A n \in DelaysReturned :
            /\ Val(delays[n].value) = BackoffDelay(delayConfig, n)
            /\ Val(delays[n].value) <= delayConfig.max_delay
       /\ delayConfig.exponential_base.num >= delayConfig.exponential_base.den
            => \A m, n \in DelaysReturned :
                 m < n => Val(delays[m].value) <= Val(delays[n].value)
  /\ delayConfig.jitter =>
       \A n \in DelaysReturned :
         /\ 5 * BackoffDelay(delayConfig, n) <= 10 * Val(delays[n].value)
         /\ 10 * Val(delays[n].value) < 15 * BackoffDelay(delayConfig, n)


\* The policy gate of s is evaluated in this step: _step_validate_request
\* returns its decision.
GateEvaluated(s) == validation[s] = "NONE" /\ validation'[s] # "NONE"

\* C32: a limit written by set_limit is the limit the policy gate of every saga
\* started afterwards evaluates against: when the gate of a saga is evaluated
\* while the store holds v, the saga is approved exactly if 0 < amount <= v,
\* also when the orchestrator was constructed while the store was unreachable.
C32_StoredLimitGovernsLaterSagas_AsStated ==
  [][\A s \in Sagas :
       (GateEvaluated(s) /\ store # None)
         => (validation'[s] = "APPROVED"
               <=> (0 < amount[s] /\ amount[s] <= Val(store)))]_vars


\* The sagas whose transfer the node took and whose nonce the chain has not
\* consumed yet: the transfer is broadcast and not reflected in the balance.
Unsettled ==
  {s \in Sagas :
     \E b \in broadcasts : b.saga = s /\ b.accepted /\ b.nonce >= chainNonce}

RECURSIVE SumOfAmounts(_)
SumOfAmounts(S) ==
  IF S = {} THEN 0
  ELSE LET s == CHOOSE x \in S : TRUE
       IN amount[s] + SumOfAmounts(S \ {s})

\* C33: the liquidity check holds across sagas: in every state the amounts of
\* the transfers that were broadcast and are not yet reflected in the on-chain
\* balance add up to at most the balance the liquidity check reads.
C33_PendingTransfersWithinBalance_AsStated ==
  SumOfAmounts(Unsettled) <= TreasuryBalance


\* process_invoice call s is completed: it returned its response.
Completed(s) == pc[s] = "done"

\* The entries of treasury:daily_logs written by call s.
LogEntriesOf(s) == {i \in DOMAIN dailyLogs : dailyLogs[i].saga = s}

\* C34: every completed process_invoice call has written exactly one entry to
\* the live feed; the entry's status is CONFIRMED exactly if the saga outcome
\* is SUCCESS, REQUIRES_APPROVAL exactly if it is PAUSED and FAILED otherwise,
\* and its tx_hash is non-null only if its status is CONFIRMED.
C34_OneLogEntryPerCompletedCall ==
  \A s \in Sagas :
    Completed(s) =>
      /\ Cardinality(LogEntriesOf(s)) = 1
      /\ \A i \in LogEntriesOf(s) :
           /\ dailyLogs[i].status = "CONFIRMED" <=> result[s].status = "SUCCESS"
           /\ dailyLogs[i].status = "REQUIRES_APPROVAL"
                <=> result[s].status = "PAUSED"
           /\ dailyLogs[i].status = "FAILED"
                <=> result[s].status \notin {"SUCCESS", "PAUSED"}
           /\ dailyLogs[i].tx_hash # None => dailyLogs[i].status = "CONFIRMED"

\* C34 witness: two completed calls are on the feed: one call
\* was paid and its entry is CONFIRMED with a hash, the other was paused and
\* its entry is REQUIRES_APPROVAL without a hash.
C34_Witness ==
  \E s, t \in Sagas :
    /\ Completed(s) /\ result[s].status = "SUCCESS"
    /\ \E i \in LogEntriesOf(s) :
         dailyLogs[i].status = "CONFIRMED" /\ dailyLogs[i].tx_hash # None
    /\ Completed(t) /\ result[t].status = "PAUSED"
    /\ \E i \in LogEntriesOf(t) :
         dailyLogs[i].status = "REQUIRES_APPROVAL" /\ dailyLogs[i].tx_hash = None


\* The rows of table transactions written by call s.
RowsOf(s) == {i \in DOMAIN transactions : transactions[i].saga = s}

\* The outcome of call s makes process_invoice ask for approval.
AsksApproval(s) == TxStatus(result[s]) = "REQUIRES_APPROVAL"

\* Call s leaves part "finish" in this step while its Postgres write fails.
FinishesWithoutRow(s) ==
  pc[s] = "finish" /\ pc'[s] # "finish" /\ transactions' = transactions

\* C35: a failed write of the transaction record does not abort
\* process_invoice.  A call whose write failed is aborted only if a Redis push
\* raised; the log entry it pushes is the one it pushes when the write succeeds;
\* and every completed call, with or without its row, has its log entry with
\* the status of its outcome, its approval ticket exactly if it is PAUSED, and
\* the response of that status.
C35_DbFailureDoesNotAbort ==
  /\ [](\A s \in Sagas :
          Completed(s) =>
            /\ \E i \in LogEntriesOf(s) : dailyLogs[i] = LogEntry(s)
            /\ Tickets(s) # {} <=> AsksApproval(s)
            /\ response[s] = IF AsksApproval(s) THEN PausedResponse(s)
                             ELSE SagaResponse(result[s]))
  /\ [][\A s \in Sagas :
          FinishesWithoutRow(s) =>
            /\ pc'[s] = "raised"
                 => \/ dailyLogs' = dailyLogs
                    \/ AsksApproval(s) /\ approvals' = approvals
            /\ dailyLogs' # dailyLogs
                 => dailyLogs' = << LogEntry(s) >> \o dailyLogs]_vars

\* C35 witness: two calls are completed and neither has a row in table
\* transactions: one is PAUSED and has its log entry, its ticket and the
\* response PAUSED_FOR_APPROVAL, the other is FAILED and has its log entry and
\* the response FAILED.
C35_Witness ==
  \E s, t \in Sagas :
    /\ Completed(s) /\ RowsOf(s) = {} /\ result[s].status = "PAUSED"
    /\ LogEntriesOf(s) # {} /\ Tickets(s) # {}
    /\ response[s].status = "PAUSED_FOR_APPROVAL"
    /\ Completed(t) /\ RowsOf(t) = {} /\ result[t].status = "FAILED"
    /\ LogEntriesOf(t) # {} /\ response[t].status = "FAILED"


----------------------------------------------------------------------------
(* Properties of init_db and of the seeding *)

\* All attempts of the running init_db call before number n failed with
\* OperationalError.
FailedOperationallyBefore(n) ==
  \A i \in 1..(n - 1) : attempts[i] = "OperationalError"

\* C36: init_db terminates.  A call makes at most 5 attempts, and it goes on
\* to another attempt only after OperationalError; it returns with the first
\* attempt that connects and seeds; after 5 attempts that failed with
\* OperationalError it raises the could-not-connect error; and any other
\* exception ends the call on the attempt where it occurs, as that exception.
C36_InitDbTerminates ==
  /\ Len(attempts) <= InitialRetries
  /\ FailedOperationallyBefore(Len(attempts))
  /\ dbpc = "attempting"
       => Len(attempts) < InitialRetries /\ FailedOperationallyBefore(Len(attempts) + 1)
  /\ dbpc = "sleeping" => FailedOperationallyBefore(Len(attempts) + 1)
  /\ dbpc = "returned"
       => initResult = "returned" /\ attempts[Len(attempts)] = "ok"
  /\ dbpc = "raised"
       => \/ /\ initResult = "CouldNotConnect"
             /\ Len(attempts) = InitialRetries
             /\ FailedOperationallyBefore(InitialRetries + 1)
          \/ /\ initResult = attempts[Len(attempts)]
             /\ initResult \notin {"ok", "OperationalError"}

\* C36 witness: one call of init_db has returned, and the next call has raised
\* the could-not-connect error after 5 attempts, which all failed with
\* OperationalError.
C36_Witness ==
  /\ seedings = 1 /\ initRuns = 2
  /\ dbpc = "raised" /\ initResult = "CouldNotConnect"
  /\ Len(attempts) = InitialRetries


\* The rows of user_1 in table wallets and the rows of admin in table users.
WalletRowsOfUser1 == {i \in DOMAIN wallets : wallets[i].user_id = "user_1"}

AdminRows == {i \in DOMAIN users : users[i].username = "admin"}

RecentlyRecorded(c, T) ==
  {i \in DOMAIN requests[c] : requests[c][i] > T - WindowSeconds}

\* The same for the list of c after the step.
RecentlyRecordedNext(c, T) ==
  {i \in DOMAIN requests'[c] : requests'[c][i] > T - WindowSeconds}

\* C38: each client has at most requests_per_minute recorded times within the
\* last 60 seconds.  A step records one time for a client exactly if it serves
\* a request of that client: a refused request and the requests of other
\* clients leave the client's recorded times of the last 60 seconds as they
\* are.  And get_remaining(client) is max(0, requests_per_minute minus the
\* number of the client's recorded times within the last 60 seconds).
C38_RecordedTimesAndRemaining ==
  /\ [](\A c \in ClientIds :
          Cardinality(RecentlyRecorded(c, clock)) <= requests_per_minute)
  /\ [][/\ \A c \in ClientIds :
             Cardinality(RecentlyRecordedNext(c, clock'))
               = Cardinality(RecentlyRecorded(c, clock'))
                   + (IF handled'[c] # handled[c] THEN 1 ELSE 0)
        /\ rateHeaders' # rateHeaders
             => LET left == requests_per_minute
                              - Cardinality(RecentlyRecorded(rateHeaders'.client, clock))
                IN rateHeaders'.remaining = IF left > 0 THEN left ELSE 0]_vars

\* C38 witness: client a has used up its allowance and its last request was
\* refused, client b was served once in the meantime, and the response to b
\* says that b has all but one of its requests left.
C38_Witness ==
  /\ requests_per_minute >= 2
  /\ Len(requests["a"]) = requests_per_minute
  /\ lastResponse.client = "a" /\ lastResponse.status = 429
  /\ Len(requests["b"]) = 1
  /\ rateHeaders.client = "b"
  /\ rateHeaders.remaining = requests_per_minute - 1

=============================================================================
